---- MODULE Spec2Model ----
(***************************************************************************)
(* Model of src/service_deployment_tools/generate_deployments_json.py.     *)
(*                                                                         *)
(* Python strings are sequences of one-character strings, so that the      *)
(* string operations of the script (split, slicing, %-formatting, the      *)
(* `in` substring test) are computed and not assumed.  A Python dict is a  *)
(* set of <<key, value>> pairs with at most one pair per key.  A value     *)
(* that a Python function returns or an exception it raises is a record    *)
(* [raised, value]: raised is "none" or the name of the exception.         *)
(***************************************************************************)
EXTENDS Integers, Sequences, FiniteSets, TLC

VARIABLES
  soa_ok,          \* whether soa_dir can be listed by os.walk
  soa_dir,         \* service directory name -> set of files [name, ok, config]
  remotes,         \* git url -> remote repository [ok, heads, junk]
  artifact,        \* soa_dir/deployments.json: [exists, text, data]
  prior,           \* the artifact as it was when the current run of main began
  pc,              \* position of main / get_branch_mappings
  todo,            \* service directories the for loop has not reached yet
  service,         \* loop variable of get_branch_mappings (<<>> before the loop)
  valid_branches,  \* local of get_branch_mappings
  pending,         \* what is left of the filtered remote_branches list
  mappings,        \* local of get_branch_mappings, then of main
  queries,         \* service -> number of ls_remote calls issued in this run
  logged,          \* the (service, head, branch) triples of log line 155
  error,           \* the exception that ended the run, "none" otherwise
  previous         \* <<last service examined, mappings>> of the previous run that returned, <<>> if none

vars == <<soa_ok, soa_dir, remotes, artifact, prior, pc, todo, service,
          valid_branches, pending, mappings, queries, logged, error, previous>>

\* Bounds of the model.
MaxServices == 2
MaxFiles == 2

-----------------------------------------------------------------------------
\* Python string and dict primitives.

StartsWithAt(s, sep, i) ==
  /\ i + Len(sep) - 1 <= Len(s)
  /\ SubSeq(s, i, i + Len(sep) - 1) = sep

\* sub in s
Contains(s, sub) == \E i \in 1..(Len(s) + 1) : StartsWithAt(s, sub, i)

\* s.split(sep)
RECURSIVE split(_, _)
split(s, sep) ==
  LET hits == {i \in 1..Len(s) : StartsWithAt(s, sep, i)}
  IN  IF hits = {} THEN <<s>>
      ELSE LET i == CHOOSE j \in hits : \A k \in hits : j <= k
           IN  <<SubSeq(s, 1, i - 1)>> \o split(SubSeq(s, i + Len(sep), Len(s)), sep)

\* sep.join(parts)
RECURSIVE join(_, _)
join(sep, parts) ==
  IF parts = <<>> THEN <<>>
  ELSE IF Len(parts) = 1 THEN parts[1]
  ELSE parts[1] \o sep \o join(sep, Tail(parts))

\* s[0:n]
Slice0(s, n) == SubSeq(s, 1, IF Len(s) < n THEN Len(s) ELSE n)

Keys(d) == {p[1] : p \in d}
Values(d) == {p[2] : p \in d}
Get(d, k) == (CHOOSE p \in d : p[1] = k)[2]
\* d[k] = v
Put(d, k, v) == {p \in d : p[1] # k} \cup {<<k, v>>}

Ok(v) == [raised |-> "none", value |-> v]
Raise(e, v) == [raised |-> e, value |-> v]

-----------------------------------------------------------------------------
\* Literals of the script.

MARATHON_PREFIX == <<"m","a","r","a","t","h","o","n","-">>
REFS_HEADS == <<"r","e","f","s","/","h","e","a","d","s","/">>
GIT_URL_HEAD == <<"g","i","t","@","g","i","t",".","y","e","l","p","c","o","r","p",".","c","o","m",":","s","e","r","v","i","c","e","s","/">>
GIT_URL_TAIL == <<".","g","i","t">>
DASH == <<"-">>
DOT == <<".">>
COLON == <<":">>
TAB == <<"\t">>
NEWLINE == <<"\n">>

-----------------------------------------------------------------------------
\* Branch resolution.

get_git_url(svc) == GIT_URL_HEAD \o svc \o GIT_URL_TAIL

\* service_configuration_lib.read_service_information(path): the parsed
\* document, or the parser's exception when the file cannot be parsed.
read_service_information(file) ==
  IF file.ok THEN Ok(file.config) ELSE Raise("ConfigParseError", {})

\* filename.split('-')[1].split('.')[0] inside try/except IndexError: the set
\* holding the token, or the empty set for None.
filename_branch(filename) ==
  LET parts == split(filename, DASH)
  IN  IF Len(parts) < 2 THEN {} ELSE {split(parts[2], DOT)[1]}

\* The elif of line 79 taken as an else.
target_branch_else(record, filename) ==
  IF "branch" \in Keys(record) THEN {Get(record, "branch")}
  ELSE filename_branch(filename)

\* target_branch of one instance record, {} for None.
target_branch(record, filename) ==
  IF "branch" \in Keys(record) THEN {Get(record, "branch")}
  ELSE IF "docker_image" \notin Keys(record) THEN filename_branch(filename)
  ELSE {}

\* `if target_branch:` is false for None and for the empty string.
truthy(target) == {b \in target : Len(b) > 0}

get_branches_from_marathon_file(file_dir, filename) ==
  LET file == CHOOSE f \in file_dir : f.name = filename
      config == read_service_information(file)
  IN  IF config.raised # "none" THEN Raise(config.raised, {})
      ELSE Ok(UNION {truthy(target_branch(record, filename)) : record \in Values(config.value)})

is_marathon_file(fname) == Contains(fname, MARATHON_PREFIX)

get_branches_for_service(soa, svc) ==
  LET working_dir == soa[svc]
      fnames == {f.name : f \in working_dir}
      results == {get_branches_from_marathon_file(working_dir, fname) :
                    fname \in {n \in fnames : is_marathon_file(n)}}
  IN  IF \E r \in results : r.raised # "none"
      THEN Raise((CHOOSE r \in results : r.raised # "none").raised, {})
      ELSE Ok(UNION {r.value : r \in results})

-----------------------------------------------------------------------------
\* Remote listing.

\* What `git ls-remote -h url` prints for a repository, with the trailing
\* newline stripped as GitPython does: one line per head, then any other
\* line the command printed; GitCommandError when the command fails.
head_line(h) == h.sha \o TAB \o REFS_HEADS \o h.name

ls_remote(mygit, url) ==
  LET repo == mygit[url]
  IN  IF ~repo.ok THEN Raise("GitCommandError", <<>>)
      ELSE Ok(join(NEWLINE, [i \in 1..Len(repo.heads) |-> head_line(repo.heads[i])] \o repo.junk))

\* One element of the list comprehension of lines 116-117.
parse_branch(branch) ==
  LET cols == split(branch, TAB)
  IN  IF Len(cols) < 2 THEN Raise("IndexError", <<>>)
      ELSE LET ref == split(cols[2], REFS_HEADS)
           IN  IF Len(ref) < 2 THEN Raise("IndexError", <<>>)
               ELSE Ok(<<cols[1], ref[2]>>)

\* The except clause of line 119 missing.
reraise_git_command_error(e) == Raise(e, <<>>)

\* except git.errors.GitCommandError: return []
on_git_command_error(e) == Ok(<<>>)

get_remote_branches_for_service(mygit, svc) ==
  LET out == ls_remote(mygit, get_git_url(svc))
  IN  IF out.raised = "GitCommandError" THEN on_git_command_error(out.raised)
      ELSE LET branches == split(out.value, NEWLINE)
               parsed == [i \in 1..Len(branches) |-> parse_branch(branches[i])]
           IN  IF \E i \in 1..Len(parsed) : parsed[i].raised # "none"
               THEN Raise("IndexError", <<>>)
               ELSE Ok([i \in 1..Len(parsed) |-> parsed[i].value])

-----------------------------------------------------------------------------
\* Mapping construction.

\* The filter of line 152 letting every remote branch through.
keep_any_branch(valid, ref) == TRUE

\* lambda (head, branch): branch in valid_branches
keep_branch(valid, ref) == ref[2] \in valid

filter_branches(valid, remote_branches) ==
  SelectSeq(remote_branches, LAMBDA ref : keep_branch(valid, ref))

\* The key of line 153 without the service name.
branch_alias_bare(svc, branch) == branch

\* '%s:%s' % (service, branch)
branch_alias(svc, branch) == svc \o COLON \o branch

\* head[0:7] for head[0:6] in line 154.
docker_image_7(svc, head) == svc \o COLON \o Slice0(head, 7)

\* '%s:%s' % (service, head[0:6])
docker_image(svc, head) == svc \o COLON \o Slice0(head, 6)

\* The test of line 148 never true.
never_no_branches(valid) == FALSE

\* `if not valid_branches:`
no_branches(valid) == valid = {}

\* open(path, 'w') and json.dump(mappings, f)
open_w(f) == [exists |-> TRUE, text |-> "empty", data |-> {}]
json_dump(m, f) == [exists |-> TRUE, text |-> "json", data |-> m]

-----------------------------------------------------------------------------
\* The inputs of a run: the service directories, the remote repositories and
\* the artifact left by an earlier run.

DIGITS == <<"1","2","3","4","5","6","7","8","9">>
ServiceName(i) == <<"s","v","c">> \o <<DIGITS[i]>>
Dirs(n) == {ServiceName(i) : i \in 1..n}

master == <<"m","a","s","t","e","r">>
devc == <<"d","e","v","c">>
release == <<"r","e","l","e","a","s","e">>
image == <<"i","m","g",":","1">>

marathon_devc_yaml == MARATHON_PREFIX \o <<"d","e","v","c",".","y","a","m","l">>
marathon_yaml == MARATHON_PREFIX \o <<".","y","a","m","l">>
x_marathon_devc_yaml == <<"x","-">> \o marathon_devc_yaml
marathon_norcal_devc_yaml == MARATHON_PREFIX \o <<"n","o","r","c","a","l","-","d","e","v","c",".","y","a","m","l">>
service_yaml == <<"s","e","r","v","i","c","e",".","y","a","m","l">>

FileNames == {marathon_devc_yaml, marathon_yaml, x_marathon_devc_yaml,
              marathon_norcal_devc_yaml, service_yaml}

\* Instance records: neither key, a branch, an empty branch, a pinned
\* image, a branch beside a pinned image.
rec_plain == {}
rec_branch(b) == {<<"branch", b>>}
rec_docker == {<<"docker_image", image>>}
rec_both(b) == {<<"branch", b>>, <<"docker_image", image>>}

Records == {rec_plain, rec_branch(master), rec_branch(<<>>), rec_docker, rec_both(devc)}

Configs ==
  {{<<"main", r>>} : r \in Records}
    \cup {{<<"main", rec_docker>>, <<"canary", rec_branch(release)>>}}

File(name, config) == [name |-> name, ok |-> TRUE, config |-> config]
BadFile(name) == [name |-> name, ok |-> FALSE, config |-> {}]

Files == {File(n, c) : n \in FileNames, c \in Configs} \cup {BadFile(n) : n \in FileNames}

\* The directory listings of at most k files (file names are unique in a directory).
RECURSIVE Listings(_)
Listings(k) ==
  IF k = 0 THEN {{}}
  ELSE LET less == Listings(k - 1)
       IN  less \cup {l \cup {f} : l \in less, f \in Files}

WellNamed(l) == \A f, g \in l : f.name = g.name => f = g

CoreListings ==
  { {},
    {File(marathon_devc_yaml, {<<"main", rec_plain>>})},
    {File(marathon_devc_yaml, {<<"main", rec_branch(master)>>, <<"canary", rec_docker>>})} }

TwoBranchListing ==
  {File(marathon_devc_yaml, {<<"main", rec_branch(master)>>, <<"canary", rec_plain>>})}

\* A 40-digit commit id beginning with the given digits.
Sha(p) == p \o [i \in 1..(40 - Len(p)) |-> "0"]
sha1 == Sha(<<"a","b","c","d","e","f","0","1">>)
sha2 == Sha(<<"1","2","3","4","5","6","7","8">>)
sha3 == Sha(<<"f","e","d","c","b","a","9","8">>)

RemoteHead(sha, name) == [sha |-> sha, name |-> name]
Repo(heads, junk) == [ok |-> TRUE, heads |-> heads, junk |-> junk]
NoRepo == [ok |-> FALSE, heads |-> <<>>, junk |-> <<>>]

CoreRemotes ==
  { NoRepo,
    Repo(<<>>, <<>>),
    Repo(<<RemoteHead(sha1, master), RemoteHead(sha2, devc), RemoteHead(sha3, release)>>, <<>>) }

RichRemotes ==
  {NoRepo} \cup
  {Repo(h, j) : h \in {<<>>, <<RemoteHead(sha1, master)>>,
                       <<RemoteHead(sha1, master), RemoteHead(sha2, devc), RemoteHead(sha3, release)>>},
                j \in {<<>>, <<<<"f","a","t","a","l">>>>, <<sha3 \o TAB \o <<"H","E","A","D">>>>}}

OldArtifact ==
  [exists |-> TRUE, text |-> "json",
   data |-> {<<<<"o","l","d",":","m","a","s","t","e","r">>, <<"o","l","d",":","0","0","0","0","0","0">>>>}]

InitLocals ==
  /\ pc = "main"
  /\ todo = {}
  /\ service = <<>>
  /\ valid_branches = {}
  /\ pending = <<>>
  /\ mappings = {}
  /\ queries = [s \in DOMAIN soa_dir |-> 0]
  /\ logged = {}
  /\ error = "none"
  /\ previous = <<>>
  /\ artifact = OldArtifact
  /\ prior = artifact

\* Up to MaxServices service directories.
InitPipeline ==
  /\ soa_ok = TRUE
  /\ soa_dir \in UNION {[Dirs(n) -> CoreListings] : n \in 0..MaxServices}
  /\ remotes \in [{get_git_url(s) : s \in DOMAIN soa_dir} -> CoreRemotes]

\* One service directory holding up to MaxFiles files.
InitResolver ==
  /\ soa_ok = TRUE
  /\ soa_dir \in [Dirs(1) -> {l \in Listings(MaxFiles) : WellNamed(l)}]
  /\ remotes \in [{get_git_url(s) : s \in DOMAIN soa_dir} -> {Repo(<<RemoteHead(sha1, master), RemoteHead(sha2, devc), RemoteHead(sha3, release)>>, <<>>)}]

\* One service directory and whatever its remote answers.
InitLister ==
  /\ soa_ok = TRUE
  /\ soa_dir \in [Dirs(1) -> {TwoBranchListing}]
  /\ remotes \in [{get_git_url(s) : s \in DOMAIN soa_dir} -> RichRemotes]

\* soa_dir does not exist.
InitNoDir ==
  /\ soa_ok = FALSE
  /\ soa_dir = [s \in {} |-> {}]
  /\ remotes = [u \in {} |-> NoRepo]

Init ==
  /\ \/ InitPipeline
     \/ InitResolver
     \/ InitLister
     \/ InitNoDir
  /\ InitLocals

-----------------------------------------------------------------------------
\* main and get_branch_mappings.

Abort(e) ==
  /\ pc' = "aborted"
  /\ error' = e

\* os.walk(soa_dir).next() on a directory that cannot be listed.
ListDirFails ==
  /\ pc = "main"
  /\ ~soa_ok
  /\ Abort("StopIteration")
  /\ UNCHANGED <<soa_ok, soa_dir, remotes, artifact, prior, todo, service,
                 valid_branches, pending, mappings, queries, logged, previous>>

BeginRun ==
  /\ pc = "main"
  /\ soa_ok
  /\ pc' = "for"
  /\ mappings' = {}
  /\ todo' = DOMAIN soa_dir
  /\ UNCHANGED <<soa_ok, soa_dir, remotes, artifact, prior, service,
                 valid_branches, pending, queries, logged, error, previous>>

\* The next service of the for loop, in whatever order os.walk listed them.
ResolveRaises(s) ==
  /\ pc = "for"
  /\ s \in todo
  /\ get_branches_for_service(soa_dir, s).raised # "none"
  /\ service' = s
  /\ todo' = todo \ {s}
  /\ Abort(get_branches_for_service(soa_dir, s).raised)
  /\ UNCHANGED <<soa_ok, soa_dir, remotes, artifact, prior, valid_branches,
                 pending, mappings, queries, logged, previous>>

SkipService(s) ==
  /\ pc = "for"
  /\ s \in todo
  /\ get_branches_for_service(soa_dir, s).raised = "none"
  /\ no_branches(get_branches_for_service(soa_dir, s).value)
  /\ service' = s
  /\ todo' = todo \ {s}
  /\ valid_branches' = get_branches_for_service(soa_dir, s).value
  /\ UNCHANGED <<soa_ok, soa_dir, remotes, artifact, prior, pc, pending,
                 mappings, queries, logged, error, previous>>

ResolveBranches(s) ==
  /\ pc = "for"
  /\ s \in todo
  /\ get_branches_for_service(soa_dir, s).raised = "none"
  /\ ~no_branches(get_branches_for_service(soa_dir, s).value)
  /\ service' = s
  /\ todo' = todo \ {s}
  /\ valid_branches' = get_branches_for_service(soa_dir, s).value
  /\ pc' = "query"
  /\ UNCHANGED <<soa_ok, soa_dir, remotes, artifact, prior, pending,
                 mappings, queries, logged, error, previous>>

QueryRaises ==
  /\ pc = "query"
  /\ get_remote_branches_for_service(remotes, service).raised # "none"
  /\ queries' = [queries EXCEPT ![service] = @ + 1]
  /\ Abort(get_remote_branches_for_service(remotes, service).raised)
  /\ UNCHANGED <<soa_ok, soa_dir, remotes, artifact, prior, todo, service,
                 valid_branches, pending, mappings, logged, previous>>

QueryRemote ==
  /\ pc = "query"
  /\ get_remote_branches_for_service(remotes, service).raised = "none"
  /\ queries' = [queries EXCEPT ![service] = @ + 1]
  /\ pending' = filter_branches(valid_branches,
                                get_remote_branches_for_service(remotes, service).value)
  /\ pc' = IF pending' = <<>> THEN "for" ELSE "merge"
  /\ UNCHANGED <<soa_ok, soa_dir, remotes, artifact, prior, todo, service,
                 valid_branches, mappings, logged, error, previous>>

\* One iteration of the inner for loop, lines 152-156.
MergeEntry ==
  /\ pc = "merge"
  /\ pending # <<>>
  /\ LET head == pending[1][1]
         branch == pending[1][2]
     IN  /\ logged' = logged \cup {<<service, head, branch>>}
         /\ mappings' = Put(mappings, branch_alias(service, branch), docker_image(service, head))
  /\ pending' = Tail(pending)
  /\ pc' = IF pending' = <<>> THEN "for" ELSE "merge"
  /\ UNCHANGED <<soa_ok, soa_dir, remotes, artifact, prior, todo, service,
                 valid_branches, queries, error, previous>>

\* The loop is exhausted: os.rmdir(tmp_dir), whose failure is only logged,
\* and return mappings.
Return ==
  /\ pc = "for"
  /\ todo = {}
  /\ pc' = "returned"
  /\ UNCHANGED <<soa_ok, soa_dir, remotes, artifact, prior, todo, service,
                 valid_branches, pending, mappings, queries, logged, error, previous>>

OpenFails ==
  /\ pc = "returned"
  /\ Abort("IOError")
  /\ UNCHANGED <<soa_ok, soa_dir, remotes, artifact, prior, todo, service,
                 valid_branches, pending, mappings, queries, logged, previous>>

\* The artifact opened before get_branch_mappings is called.
OpenArtifactEarly ==
  /\ pc = "main"
  /\ soa_ok
  /\ artifact' = open_w(artifact)
  /\ pc' = "for"
  /\ mappings' = {}
  /\ todo' = DOMAIN soa_dir
  /\ UNCHANGED <<soa_ok, soa_dir, remotes, prior, service,
                 valid_branches, pending, queries, logged, error, previous>>

OpenArtifact ==
  /\ pc = "returned"
  /\ artifact' = open_w(artifact)
  /\ pc' = "opened"
  /\ UNCHANGED <<soa_ok, soa_dir, remotes, prior, todo, service,
                 valid_branches, pending, mappings, queries, logged, error, previous>>

DumpArtifact ==
  /\ pc = "opened"
  /\ artifact' = json_dump(mappings, artifact)
  /\ pc' = "done"
  /\ UNCHANGED <<soa_ok, soa_dir, remotes, prior, todo, service,
                 valid_branches, pending, mappings, queries, logged, error, previous>>

\* The script is run again on the same inputs.
Rerun ==
  /\ pc \in {"done", "aborted"}
  /\ pc' = "main"
  /\ prior' = artifact
  /\ todo' = {}
  /\ service' = <<>>
  /\ valid_branches' = {}
  /\ pending' = <<>>
  /\ mappings' = {}
  /\ queries' = [s \in DOMAIN soa_dir |-> 0]
  /\ logged' = {}
  /\ error' = "none"
  /\ previous' = IF pc = "done" \/ error = "IOError" THEN <<service, mappings>> ELSE previous
  /\ UNCHANGED <<soa_ok, soa_dir, remotes, artifact>>

Next ==
  \/ ListDirFails
  \/ BeginRun
  \/ \E s \in DOMAIN soa_dir : ResolveRaises(s)
  \/ \E s \in DOMAIN soa_dir : SkipService(s)
  \/ \E s \in DOMAIN soa_dir : ResolveBranches(s)
  \/ QueryRaises
  \/ QueryRemote
  \/ MergeEntry
  \/ Return
  \/ OpenFails
  \/ OpenArtifact
  \/ DumpArtifact
  \/ Rerun

Spec == Init /\ [][Next]_vars

-----------------------------------------------------------------------------
\* What the claims speak of, written from the inputs.

Services == DOMAIN soa_dir
Returned == pc \in {"returned", "opened", "done"}
\* valid_branches holds the tracked set of the service being examined.
Resolved == service # <<>> /\ error # "ConfigParseError"

Tracked(s) == get_branches_for_service(soa_dir, s).value
Parses(s) == \A f \in soa_dir[s] : is_marathon_file(f.name) => f.ok
GitFails(s) == ~remotes[get_git_url(s)].ok
Heads(s) == {remotes[get_git_url(s)].heads[i] : i \in 1..Len(remotes[get_git_url(s)].heads)}

Key(s, b) == s \o <<":">> \o b
Tag(s, sha) == s \o <<":">> \o [i \in 1..6 |-> sha[i]]
EntriesOf(m, s) == {p \in m : split(p[1], COLON)[1] = s}
ExpectedEntries(s) == {<<Key(s, h.name), Tag(s, h.sha)>> : h \in {g \in Heads(s) : g.name \in Tracked(s)}}
ExpectedMapping == UNION {IF GitFails(s) THEN {} ELSE ExpectedEntries(s) : s \in Services}

\* C1: a remote query that fails with a git command error never ends the
\* run: the loop goes on to the remaining services, the failing service
\* contributes no entry, and every other service's entries in the returned
\* mapping are exactly the ones its own tracked branches and remote heads give.
C1_FailureIsolation ==
  /\ ~(pc = "aborted" /\ error = "GitCommandError")
  /\ (service # <<>> /\ GitFails(service) /\ queries[service] = 1)
       => (pc \in {"for", "returned", "opened", "done"} \/ (pc = "aborted" /\ error = "IOError"))
  /\ Returned =>
       /\ todo = {}
       /\ \A s \in Services :
            EntriesOf(mappings, s) = IF GitFails(s) THEN {} ELSE ExpectedEntries(s)

C1_Witness ==
  /\ pc = "done"
  /\ \E s, t \in Services :
       /\ GitFails(s) /\ queries[s] = 1
       /\ ~GitFails(t) /\ EntriesOf(mappings, t) # {}

\* C2: in every state of a run an entry has been inserted for a service and
\* a remote ref only if the ref's branch is in the service's tracked set, and
\* a remote branch outside the tracked set has no key in the mapping.
C2_FilterCorrectness ==
  /\ \A e \in logged : e[3] \in Tracked(e[1])
  /\ \A p \in mappings : \E s \in Services : \E b \in Tracked(s) : p[1] = Key(s, b)
  /\ \A s \in Services : \A h \in Heads(s) :
       h.name \notin Tracked(s) => Key(s, h.name) \notin Keys(mappings)

C2_Witness ==
  /\ pc = "done"
  /\ \E s \in Services : \E h, g \in Heads(s) :
       /\ h.name \notin Tracked(s)
       /\ g.name \in Tracked(s)
       /\ Key(s, g.name) \in Keys(mappings)

\* C3: once get_branch_mappings has returned, for every service, every
\* branch of its tracked set and every remote ref of that branch, the mapping
\* holds exactly one entry under "<service>:<branch>" and its value is
\* "<service>:" followed by the first 6 characters of the commit id,
\* provided no other service writes the same key.
C3_EntryCorrectness ==
  Returned =>
    \A s \in Services : \A h \in Heads(s) :
      (/\ ~GitFails(s)
       /\ h.name \in Tracked(s)
       /\ \A t \in Services \ {s} : Key(s, h.name) \notin Keys(ExpectedEntries(t)))
      => {p \in mappings : p[1] = Key(s, h.name)} = {<<Key(s, h.name), Tag(s, h.sha)>>}

C3_Witness ==
  /\ pc = "done"
  /\ <<ServiceName(1) \o COLON \o master,
       ServiceName(1) \o COLON \o <<"a","b","c","d","e","f">>>> \in mappings

\* C5: every return of get_branch_mappings on the same inputs gives the
\* same mapping as the run before it, whatever the order in which the two
\* runs examined the services.
C5_OrderIndependence ==
  (Returned /\ previous # <<>>) => mappings = previous[2]

C5_Witness ==
  /\ pc = "returned"
  /\ previous # <<>>
  /\ service # previous[1]
  /\ \E s, t \in Services : s # t /\ EntriesOf(mappings, s) # {} /\ EntriesOf(mappings, t) # {}

\* C8: a service whose tracked branch set is empty is never queried and has
\* no entry in the mapping; no service is queried twice in a run; and when
\* get_branch_mappings has returned, every service with a non-empty tracked
\* set has been queried exactly once.
C8_SkipBranchless ==
  \A s \in Services :
    /\ queries[s] <= 1
    /\ (Parses(s) /\ Tracked(s) = {}) => (queries[s] = 0 /\ EntriesOf(mappings, s) = {})
    /\ (Returned /\ Tracked(s) # {}) => queries[s] = 1

C8_Witness ==
  /\ pc = "done"
  /\ \E s, t \in Services :
       /\ Tracked(s) = {} /\ queries[s] = 0
       /\ Tracked(t) # {} /\ queries[t] = 1

\* C10: deployments.json differs from what the run found only after
\* get_branch_mappings has returned with every service directory examined;
\* a run that aborts before that leaves it as it was; and when main is done
\* the file holds exactly the mapping computed from the current inputs.
C10_ArtifactAfterCompleteRun ==
  /\ artifact # prior => (pc \in {"opened", "done"} /\ todo = {})
  /\ (pc = "aborted" /\ error # "IOError") => artifact = prior
  /\ pc = "done" =>
       artifact = [exists |-> TRUE, text |-> "json", data |-> ExpectedMapping]

C10_Witness ==
  /\ pc = "done"
  /\ prior.data # {}
  /\ artifact.data # {}
  /\ prior.data \cap artifact.data = {}

-----------------------------------------------------------------------------
\* Branch resolution as the claims state it.

\* The union, over the configuration files of a listing and the instance
\* records in them, of what Target gives for the record and the file name.
BranchesBy(listing, Target(_, _)) ==
  UNION {UNION {Target(record, f.name) : record \in Values(f.config)} :
           f \in {g \in listing : is_marathon_file(g.name)}}

NonEmpty(target) == {b \in target : b # <<>>}

\* A branch key contributes its value, whatever it is.
StatedTarget(record, filename) ==
  IF \E p \in record : p[1] = "branch" THEN {p[2] : p \in {q \in record : q[1] = "branch"}}
  ELSE IF \E p \in record : p[1] = "docker_image" THEN {}
  ELSE NonEmpty(filename_branch(filename))

\* A branch key contributes its value unless the value is empty.
AmendedTarget(record, filename) ==
  IF \E p \in record : p[1] = "branch"
  THEN NonEmpty({p[2] : p \in {q \in record : q[1] = "branch"}})
  ELSE IF \E p \in record : p[1] = "docker_image" THEN {}
  ELSE NonEmpty(filename_branch(filename))

\* C4 as stated: the tracked set is the union of the per-instance target
\* branches, where a record with a branch key contributes that key's value
\* whatever it is, a record with neither key the branch inferred from the
\* file name, and a record with docker_image and no branch nothing.
C4_Stated ==
  (Resolved /\ Parses(service)) => valid_branches = BranchesBy(soa_dir[service], StatedTarget)

\* C4 as amended: the same rule, except that a record whose branch key
\* holds an empty value contributes nothing (and does not fall back to the
\* file name).
C4_BranchResolution ==
  (Resolved /\ Parses(service)) => valid_branches = BranchesBy(soa_dir[service], AmendedTarget)

C4_Witness ==
  /\ pc = "query"
  /\ Cardinality(soa_dir[service]) = 2
  /\ \E f, g \in soa_dir[service] :
       /\ f.config = {<<"main", rec_branch(<<>>)>>}
       /\ g.config = {<<"main", rec_docker>>, <<"canary", rec_branch(release)>>}
  /\ valid_branches = {release}

\* C6: a configuration file that cannot be parsed does not end the run: it
\* contributes no branch and the service's other files are still resolved.
C6_ParseFailureNotFatal ==
  /\ ~(pc = "aborted" /\ error = "ConfigParseError")
  /\ (service # <<>> /\ pc # "aborted")
       => valid_branches = BranchesBy({f \in soa_dir[service] : f.ok}, AmendedTarget)

\* C7: whatever ls-remote answers (a command failure, no line at all, a line
\* without a tab or without refs/heads/), get_remote_branches_for_service
\* returns a list and the run is not ended by the lister.
C7_ListerNeverRaises ==
  ~(pc = "aborted" /\ error \in {"IndexError", "GitCommandError"})

\* The file name's token after the marathon- prefix, without the extension
\* that ends the name; nothing when the prefix does not start the name or
\* the token is empty.
LastDot(s) == CHOOSE i \in 1..Len(s) : s[i] = "." /\ \A j \in (i + 1)..Len(s) : s[j] # "."
StripExtension(s) == IF \E i \in 1..Len(s) : s[i] = "." THEN SubSeq(s, 1, LastDot(s) - 1) ELSE s
ConventionBranch(filename) ==
  IF StartsWithAt(filename, MARATHON_PREFIX, 1)
  THEN NonEmpty({StripExtension(SubSeq(filename, Len(MARATHON_PREFIX) + 1, Len(filename)))})
  ELSE {}

ConventionTarget(record, filename) ==
  IF \E p \in record : p[1] = "branch"
  THEN NonEmpty({p[2] : p \in {q \in record : q[1] = "branch"}})
  ELSE IF \E p \in record : p[1] = "docker_image" THEN {}
  ELSE ConventionBranch(filename)

\* C9: an instance with neither branch nor docker_image contributes the
\* token that follows the marathon- prefix of the file name, stripped of its
\* trailing extension, and contributes nothing when the file name does not
\* follow that convention; resolution never crashes on a file name.
C9_FileNameInference ==
  /\ \A s \in Services : get_branches_for_service(soa_dir, s).raised \in {"none", "ConfigParseError"}
  /\ (Resolved /\ Parses(service))
       => valid_branches = BranchesBy(soa_dir[service], ConventionTarget)

====
